---- MODULE Spec2Model ----
(***************************************************************************)
(* Model of text-highlight-demo: the Pango markup generator                *)
(* (pango_feature_demos.py) and the ffmpeg command synthesizer             *)
(* (video_pipeline.py).                                                    *)
(*                                                                         *)
(* Python strings are sequences of one-character strings, so that          *)
(* escaping, slicing and searching are computed character by character.    *)
(* Python floats are IEEE 754 binary64 numbers and every operation on them *)
(* is rounded as the hardware rounds it; their mantissas are kept as       *)
(* sequences of 15-bit limbs.  An optional value is None (<<>>) or Some(x) *)
(* (<<x>>).                                                                *)
(***************************************************************************)
EXTENDS Integers, Sequences, FiniteSets, TLC

VARIABLES
    pc,                       \* "start" | "configured" | "rendering" | "returned"
    BASE_FONT_FAMILY,         \* module globals of pango_feature_demos.py
    BASE_FONT_SIZE_PT,
    TEXT_COLOR,
    DEFAULT_HIGHLIGHT_COLOR,
    fs,                       \* the file system: read by video_pipeline.py,
                              \* written by pango_feature_demos.py
    call,                     \* the function called and its arguments
    result                    \* what the call returned or raised

vars == <<pc, BASE_FONT_FAMILY, BASE_FONT_SIZE_PT, TEXT_COLOR,
          DEFAULT_HIGHLIGHT_COLOR, fs, call, result>>

----------------------------------------------------------------------------
(* Bounds of the model *)

\* Sentences over NarrowAlphabet have up to MaxSentenceLen characters, sentences
\* over the whole Alphabet up to MaxSentenceLen - 2; phrases likewise up to
\* MaxPhraseLen and MaxPhraseLen - 1.
MaxSentenceLen == 4
MaxPhraseLen == 2
\* rgb_to_hex is called on the channels k/ColorSteps, k in 0..ColorSteps.
ColorSteps == 4

----------------------------------------------------------------------------
(* Optional values *)

None == <<>>
Some(x) == <<x>>
IsNone(o) == Len(o) = 0
Get(o) == o[1]

Abs(n) == IF n < 0 THEN -n ELSE n
Max(S) == CHOOSE x \in S : \A y \in S : x >= y

----------------------------------------------------------------------------
(* Natural numbers of any size: the limbs of a number in base 2^15, least  *)
(* significant first, without a zero limb at the high end (<<>> is 0).     *)

\* 15 bits to a limb: the product of two limbs fits a 32-bit integer.
LimbBits == 3 * 5
Base == 2 ^ LimbBits

Limb(a, i) == IF i <= Len(a) THEN a[i] ELSE 0

RECURSIVE NTrim(_)
NTrim(a) ==
    IF a = <<>> \/ a[Len(a)] # 0 THEN a
    ELSE NTrim(SubSeq(a, 1, Len(a) - 1))

\* A non-negative integer below 2^31 as limbs, and back.
NFromInt(n) == NTrim(<<n % Base, (n \div Base) % Base, n \div (Base * Base)>>)
NToInt(a) == Limb(a, 1) + Limb(a, 2) * Base + Limb(a, 3) * Base * Base

\* -1, 0 or 1 as a < b, a = b or a > b.
RECURSIVE NCmpFrom(_, _, _)
NCmpFrom(a, b, i) ==
    IF i = 0 THEN 0
    ELSE IF a[i] < b[i] THEN -1
    ELSE IF a[i] > b[i] THEN 1
    ELSE NCmpFrom(a, b, i - 1)

NCmp(a, b) ==
    IF Len(a) < Len(b) THEN -1
    ELSE IF Len(a) > Len(b) THEN 1
    ELSE NCmpFrom(a, b, Len(a))

RECURSIVE NAddFrom(_, _, _, _)
NAddFrom(a, b, i, carry) ==
    IF i > Len(a) /\ i > Len(b)
    THEN (IF carry = 0 THEN <<>> ELSE <<carry>>)
    ELSE LET s == Limb(a, i) + Limb(b, i) + carry
         IN  <<s % Base>> \o NAddFrom(a, b, i + 1, s \div Base)

NAdd(a, b) == NAddFrom(a, b, 1, 0)

RECURSIVE NSubFrom(_, _, _, _)
NSubFrom(a, b, i, borrow) ==
    IF i > Len(a) THEN <<>>
    ELSE LET d == a[i] - Limb(b, i) - borrow
         IN  IF d < 0 THEN <<d + Base>> \o NSubFrom(a, b, i + 1, 1)
             ELSE <<d>> \o NSubFrom(a, b, i + 1, 0)

\* a - b for a >= b.
NSub(a, b) == NTrim(NSubFrom(a, b, 1, 0))

RECURSIVE NMulSmallFrom(_, _, _, _)
NMulSmallFrom(a, k, i, carry) ==
    IF i > Len(a) THEN (IF carry = 0 THEN <<>> ELSE <<carry>>)
    ELSE LET p == a[i] * k + carry
         IN  <<p % Base>> \o NMulSmallFrom(a, k, i + 1, p \div Base)

\* a * k for 0 <= k < Base.
NMulSmall(a, k) == IF k = 0 THEN <<>> ELSE NMulSmallFrom(a, k, 1, 0)

\* a * Base^q
NShiftLimbs(a, q) == IF a = <<>> THEN <<>> ELSE [i \in 1..q |-> 0] \o a

RECURSIVE NMulFrom(_, _, _)
NMulFrom(a, b, j) ==
    IF j > Len(b) THEN <<>>
    ELSE NAdd(NMulSmall(a, b[j]), NShiftLimbs(NMulFrom(a, b, j + 1), 1))

NMul(a, b) ==
    IF Len(a) = 1 /\ Len(b) = 1 THEN NFromInt(a[1] * b[1])
    ELSE IF Len(b) = 1 THEN NMulSmall(a, b[1])
    ELSE IF Len(a) = 1 THEN NMulSmall(b, a[1])
    ELSE NMulFrom(a, b, 1)

\* a * 2^k and floor(a / 2^k)
NShl(a, k) ==
    IF k % LimbBits = 0 THEN NShiftLimbs(a, k \div LimbBits)
    ELSE NShiftLimbs(NMulSmall(a, 2 ^ (k % LimbBits)), k \div LimbBits)

NShr(a, k) ==
    LET q == k \div LimbBits
        lo == 2 ^ (k % LimbBits)
        hi == 2 ^ (LimbBits - (k % LimbBits))
        b == IF q >= Len(a) THEN <<>> ELSE SubSeq(a, q + 1, Len(a))
    IN  IF k = 0 THEN a
        ELSE IF lo = 1 THEN b
        ELSE NTrim([i \in 1..Len(b) |->
                       (b[i] \div lo) + (Limb(b, i + 1) % lo) * hi])

\* Bit j of a (bit 0 is the lowest), and whether the k lowest bits are zero.
NBit(a, j) == (Limb(a, j \div LimbBits + 1) \div 2 ^ (j % LimbBits)) % 2 = 1

NLowZero(a, k) ==
    /\ \A i \in 1..(k \div LimbBits) : Limb(a, i) = 0
    /\ Limb(a, k \div LimbBits + 1) % 2 ^ (k % LimbBits) = 0

\* The number of bits of k, and the number of zero bits at its low end (k > 0).
RECURSIVE BitLen(_)
BitLen(k) ==
    IF k = 0 THEN 0
    ELSE IF k >= 256 THEN 8 + BitLen(k \div 256)
    ELSE IF k >= 16 THEN 4 + BitLen(k \div 16)
    ELSE IF k >= 4 THEN 2 + BitLen(k \div 4)
    ELSE IF k >= 2 THEN 2 ELSE 1

RECURSIVE TrailingZeros(_)
TrailingZeros(k) == IF k % 2 = 1 THEN 0 ELSE 1 + TrailingZeros(k \div 2)

NBitLen(a) ==
    IF a = <<>> THEN 0 ELSE (Len(a) - 1) * LimbBits + BitLen(a[Len(a)])

\* The number of zero bits at the low end of a > 0.
RECURSIVE NTrailingZerosFrom(_, _)
NTrailingZerosFrom(a, i) ==
    IF a[i] = 0 THEN LimbBits + NTrailingZerosFrom(a, i + 1)
    ELSE TrailingZeros(a[i])

NTrailingZeros(a) == NTrailingZerosFrom(a, 1)

\* One digit of a long division: floor(r / d) for r < d * Base, where the
\* high limb of d is at least Base / 2 (or d is a single limb).
QuoDigit(r, d) ==
    IF Len(d) = 1 THEN (Limb(r, 1) + Limb(r, 2) * Base) \div d[1]
    ELSE LET n == Len(d)
             est == (Limb(r, n + 1) * Base + Limb(r, n)) \div d[n]
             q0 == IF est >= Base THEN Base - 1 ELSE est
         IN  IF NCmp(NMulSmall(d, q0), r) <= 0 THEN q0
             ELSE IF NCmp(NMulSmall(d, q0 - 1), r) <= 0 THEN q0 - 1
             ELSE q0 - 2

\* Long division of the limbs i, i-1, ..., 1 of n by d, r being what is left
\* of the higher limbs: <<quotient limbs, remainder>>.
RECURSIVE NDivFrom(_, _, _, _)
NDivFrom(n, d, i, r) ==
    IF i = 0 THEN <<<<>>, r>>
    ELSE LET r1 == NTrim(<<n[i]>> \o r)
             q == QuoDigit(r1, d)
             rest == NDivFrom(n, d, i - 1, NSub(r1, NMulSmall(d, q)))
         IN  <<Append(rest[1], q), rest[2]>>

\* <<floor(n / d), whether d divides n>> for d > 0.
NDiv(n, d) ==
    LET shift == LimbBits - BitLen(d[Len(d)])
        res == NDivFrom(NShl(n, shift), NShl(d, shift), Len(NShl(n, shift)),
                        <<>>)
    IN  <<NTrim(res[1]), res[2] = <<>> >>

----------------------------------------------------------------------------
(* Python numbers.  A number is (-1 or 1) * m * 2^e with m odd (zero:       *)
(* m = <<>>, e = 0), and isint tells a Python int from a Python float.  A   *)
(* float is an IEEE 754 binary64 number: each operation is rounded to the   *)
(* nearest number of 53 significant bits, ties to the even one.  Overflow,  *)
(* subnormal numbers and the sign of zero are not modelled.                 *)

\* 52 stored bits and the leading one.
MantissaBits == 52 + 1

Float(s, m, e) == [isint |-> FALSE, s |-> s, m |-> m, e |-> e]
Zero == Float(1, <<>>, 0)
IsZero(x) == x.m = <<>>

\* s * m * 2^e with the factors of two of m moved to the exponent.
Canonical(s, m, e) ==
    IF m = <<>> THEN Zero
    ELSE IF m[1] % 2 = 1 THEN Float(s, m, e)
    ELSE LET t == NTrailingZeros(m) IN Float(s, NShr(m, t), e + t)

\* s * (m + f) * 2^e rounded, where 0 < f < 1 when more is TRUE and f = 0
\* otherwise (m has 55 bits or more when more is TRUE).
Round(s, m, e, more) ==
    LET k == NBitLen(m) - MantissaBits
        q == NShr(m, k)
        up == NBit(m, k - 1) /\ (more \/ ~NLowZero(m, k - 1) \/ NBit(q, 0))
    IN  IF k <= 0 THEN Canonical(s, m, e)
        ELSE Canonical(s, IF up THEN NAdd(q, <<1>>) ELSE q, e + k)

Neg(x) == IF IsZero(x) THEN x ELSE [x EXCEPT !.s = -x.s]

\* The exact sum of two floats (not rounded).
ExactAdd(a, b) ==
    IF IsZero(a) THEN b ELSE IF IsZero(b) THEN a
    ELSE LET e == IF a.e < b.e THEN a.e ELSE b.e
             ma == NShl(a.m, a.e - e)
             mb == NShl(b.m, b.e - e)
             c == NCmp(ma, mb)
         IN  IF a.s = b.s THEN Float(a.s, NAdd(ma, mb), e)
             ELSE IF c = 0 THEN Zero
             ELSE IF c > 0 THEN Float(a.s, NSub(ma, mb), e)
             ELSE Float(b.s, NSub(mb, ma), e)

ExactMul(a, b) ==
    IF IsZero(a) \/ IsZero(b) THEN Zero
    ELSE Float(a.s * b.s, NMul(a.m, b.m), a.e + b.e)

\* The Python int of the same value.
AsInt(x) == [x EXCEPT !.isint = TRUE]

\* a + b, a - b, a * b and a / b (b # 0) of Python: exact and an int for two
\* ints, rounded and a float otherwise; a / b is always a float.
RAdd(a, b) ==
    LET x == ExactAdd(a, b)
    IN  IF a.isint /\ b.isint THEN AsInt(Canonical(x.s, x.m, x.e))
        ELSE Round(x.s, x.m, x.e, FALSE)

RSub(a, b) == RAdd(a, Neg(b))

RMul(a, b) ==
    LET x == ExactMul(a, b)
    IN  IF a.isint /\ b.isint THEN AsInt(Canonical(x.s, x.m, x.e))
        ELSE Round(x.s, x.m, x.e, FALSE)

RDiv(a, b) ==
    IF IsZero(a) THEN Zero
    ELSE LET d == MantissaBits + 2 + NBitLen(b.m) - NBitLen(a.m)
             k == IF d < 0 THEN 0 ELSE d
             q == NDiv(NShl(a.m, k), b.m)
         IN  Round(a.s * b.s, q[1], a.e - b.e - k, ~q[2])

\* float(n) and the Python int n, for n below 2^31 in size.
FromInt(n) == Canonical(IF n < 0 THEN -1 ELSE 1, NFromInt(Abs(n)), 0)
PyInt(n) == AsInt(FromInt(n))

\* The float a configuration or the source writes as the decimal n/d (1.5 is
\* 3/2, 0.1 is 1/10, 1.0 is 1/1): the float nearest to it.
Rat(n, d) == RDiv(FromInt(n), FromInt(d))

\* Python int(x) of a float: truncation toward zero (below 2^31 in size).
IntTrunc(x) ==
    IF IsZero(x) THEN 0
    ELSE IF x.e >= 0 THEN x.s * NToInt(NShl(x.m, x.e))
    ELSE x.s * NToInt(NShr(x.m, -x.e))

----------------------------------------------------------------------------
(* Strings *)

Concat(ss) ==
    LET F[i \in 0..Len(ss)] == IF i = 0 THEN <<>> ELSE F[i - 1] \o ss[i]
    IN  F[Len(ss)]

\* s[a:b] of Python, 0-based, for a, b >= 0: the bounds are clamped to len(s)
\* and an empty range gives the empty string.
Slice(s, a, b) ==
    LET hi == IF b > Len(s) THEN Len(s) ELSE b
    IN  IF a >= hi THEN <<>> ELSE [i \in 1..(hi - a) |-> s[a + i]]

\* Whether p occurs in s at 0-based offset k.
OccursAt(s, p, k) ==
    /\ k + Len(p) <= Len(s)
    /\ \A i \in 1..Len(p) : s[k + i] = p[i]

\* `p in s` of Python.
Contains(s, p) == \E k \in 0..Len(s) : OccursAt(s, p, k)

DigitChars == <<"0", "1", "2", "3", "4", "5", "6", "7", "8", "9",
                "a", "b", "c", "d", "e", "f">>

\* str(n) / f"{n}" of a non-negative Python int.
RECURSIVE Dec(_)
Dec(n) == IF n < 10 THEN <<DigitChars[n + 1]>>
          ELSE Dec(n \div 10) \o <<DigitChars[(n % 10) + 1]>>

RECURSIVE HexDigits(_)
HexDigits(n) == IF n < 16 THEN <<DigitChars[n + 1]>>
                ELSE HexDigits(n \div 16) \o <<DigitChars[(n % 16) + 1]>>

\* f"{n:02x}" of a non-negative Python int: hex, zero-padded to width 2.
Hex02(n) == IF n < 16 THEN <<"0">> \o HexDigits(n) ELSE HexDigits(n)

\* str.replace(old, new) for a one-character old.
ReplaceChar(s, old, new) ==
    LET F[i \in 0..Len(s)] ==
            IF i = 0 THEN <<>>
            ELSE F[i - 1] \o (IF s[i] = old THEN new ELSE <<s[i]>>)
    IN  F[Len(s)]

AmpEntity == <<"&", "a", "m", "p", ";">>
LtEntity == <<"&", "l", "t", ";">>
GtEntity == <<"&", "g", "t", ";">>
QuotEntity == <<"&", "q", "u", "o", "t", ";">>
AposEntity == <<"&", "#", "x", "2", "7", ";">>


\* escape with the ampersand pass last: the entities written by the earlier
\* passes are escaped again.
escape_amp_last(s) ==
    LET s1 == ReplaceChar(s, "<", LtEntity)
        s2 == ReplaceChar(s1, ">", GtEntity)
        s3 == ReplaceChar(s2, "\"", QuotEntity)
        s4 == ReplaceChar(s3, "'", AposEntity)
    IN  ReplaceChar(s4, "&", AmpEntity)

\* html.escape(s) with the default quote=True (imported at line 30): five
\* str.replace passes, the ampersand first.
escape(s) ==
    LET s1 == ReplaceChar(s, "&", AmpEntity)
        s2 == ReplaceChar(s1, "<", LtEntity)
        s3 == ReplaceChar(s2, ">", GtEntity)
        s4 == ReplaceChar(s3, "\"", QuotEntity)
    IN  ReplaceChar(s4, "'", AposEntity)

----------------------------------------------------------------------------
(* pango_feature_demos.py *)

\* str.rindex(p): the highest offset at which p occurs.
IndexLast(s, p) ==
    CHOOSE k \in 0..Len(s) :
        /\ OccursAt(s, p, k)
        /\ \A j \in (k + 1)..Len(s) : ~OccursAt(s, p, j)

\* str.index(p): the lowest offset at which p occurs (p occurs in s).
Index(s, p) ==
    CHOOSE k \in 0..Len(s) :
        /\ OccursAt(s, p, k)
        /\ \A j \in 0..(k - 1) : ~OccursAt(s, p, j)

\* The literals 255 (line 89) and 1024 (lines 113 and 231).
Int255 == PyInt(255)
Int1024 == PyInt(1024)

\* "".join(f"{int(c*255):02x}" for c in rgb), from the i-th channel on.
RECURSIVE HexChannels(_, _)
HexChannels(rgb, i) ==
    IF i > Len(rgb) THEN <<>>
    ELSE Hex02(IntTrunc(RMul(rgb[i], Int255))) \o HexChannels(rgb, i + 1)

rgb_to_hex(rgb) == <<"#">> \o HexChannels(rgb, 1)

\* Whether a dict (a sequence of <<key, value>> in insertion order) has key k.
HasKey(d, k) == \E i \in 1..Len(d) : d[i][1] = k

\* d[k] = v of a Python dict: in place for a known key, appended otherwise.
DictSet(d, k, v) ==
    IF HasKey(d, k)
    THEN [i \in 1..Len(d) |-> IF d[i][1] = k THEN <<k, v>> ELSE d[i]]
    ELSE Append(d, <<k, v>>)

\* dict.update(e)
DictUpdate(d, e) ==
    LET F[i \in 0..Len(e)] ==
            IF i = 0 THEN d ELSE DictSet(F[i - 1], e[i][1], e[i][2])
    IN  F[Len(e)]

\* sep.join(parts)
Join(sep, parts) ==
    LET F[i \in 0..Len(parts)] ==
            IF i = 0 THEN <<>>
            ELSE IF i = 1 THEN parts[1]
            ELSE F[i - 1] \o sep \o parts[i]
    IN  F[Len(parts)]

S_foreground == <<"f", "o", "r", "e", "g", "r", "o", "u", "n", "d">>
S_span_close == <<"<", "/", "s", "p", "a", "n", ">">>

\* f"<span font_family='{family}' size='{size}' foreground='{fg}'>"
BaseSpanOpen(family, size, fg) ==
    <<"<", "s", "p", "a", "n", " ", "f", "o", "n", "t", "_", "f", "a", "m", "i", "l", "y", "=", "'">> \o family \o <<"'", " ", "s", "i", "z", "e", "=", "'">> \o Dec(size)
        \o <<"'", " ", "f", "o", "r", "e", "g", "r", "o", "u", "n", "d", "=", "'">> \o fg \o <<"'", ">">>

\* " ".join(f"{k}='{v}'" for k, v in attrs.items())
AttrsStr(attrs) ==
    Join(<<" ">>, [i \in 1..Len(attrs) |->
                      attrs[i][1] \o <<"=", "'">> \o attrs[i][2] \o <<"'">>])

\* f"<span {attrs_str}>"
HighlightOpen(attrs) == <<"<", "s", "p", "a", "n", " ">> \o AttrsStr(attrs) \o <<">">>

Ok(v) == [status |-> "ok", value |-> v]
Raise(e) == [status |-> e, value |-> <<>>]

\* The attribute dict with the merge turned around: the overrides first, the
\* default foreground written over them.
HighlightAttrsDefaultWins(extra_attrs, highlight_color) ==
    LET color == IF IsNone(highlight_color) THEN DEFAULT_HIGHLIGHT_COLOR
                 ELSE Get(highlight_color)
        attrs == << <<S_foreground, rgb_to_hex(color)>> >>
    IN  IF ~IsNone(extra_attrs) /\ Len(Get(extra_attrs)) > 0
        THEN DictUpdate(Get(extra_attrs), attrs)
        ELSE attrs

\* The attribute dict of the highlighted run (lines 108-119).
HighlightAttrs(extra_attrs, highlight_color) ==
    LET color == IF IsNone(highlight_color) THEN DEFAULT_HIGHLIGHT_COLOR
                 ELSE Get(highlight_color)
        attrs == << <<S_foreground, rgb_to_hex(color)>> >>
    IN  IF ~IsNone(extra_attrs) /\ Len(Get(extra_attrs)) > 0
        THEN DictUpdate(attrs, Get(extra_attrs))
        ELSE attrs

\* Lines 108-132: the markup for the phrase found at offset start.
BuildMarkup(sentence, phrase, start, extra_attrs, highlight_color, font_size_pt) ==
    LET end == start + Len(phrase)
        size_pt == IF IsNone(font_size_pt) THEN BASE_FONT_SIZE_PT
                   ELSE Get(font_size_pt)
        base_span_open ==
            BaseSpanOpen(BASE_FONT_FAMILY,
                         IntTrunc(RMul(size_pt, Int1024)),
                         rgb_to_hex(TEXT_COLOR))
        highlight_open ==
            HighlightOpen(HighlightAttrs(extra_attrs, highlight_color))
    IN  base_span_open
        \o escape(Slice(sentence, 0, start))
        \o highlight_open
        \o escape(phrase)
        \o S_span_close
        \o escape(Slice(sentence, end, Len(sentence)))
        \o S_span_close

\* make_markup without the check of lines 100-101: a missing phrase is
\* highlighted at offset 0.
make_markup_unchecked(sentence, phrase, extra_attrs, highlight_color, font_size_pt) ==
    Ok(BuildMarkup(sentence, phrase,
                   IF Contains(sentence, phrase) THEN Index(sentence, phrase)
                   ELSE 0,
                   extra_attrs, highlight_color, font_size_pt))

make_markup(sentence, phrase, extra_attrs, highlight_color, font_size_pt) ==
    IF ~Contains(sentence, phrase)
    THEN Raise("ValueError")
    ELSE Ok(BuildMarkup(sentence, phrase, Index(sentence, phrase),
                        extra_attrs, highlight_color, font_size_pt))

----------------------------------------------------------------------------
(* Inputs *)

Alphabet == {"a", "&", "<", ">", "\"", "'"}
NarrowAlphabet == {"a", "&"}

Strings(alphabet, maxLen) == UNION {[1..n -> alphabet] : n \in 0..maxLen}

Sentences == Strings(Alphabet, MaxSentenceLen - 2)
                \cup Strings(NarrowAlphabet, MaxSentenceLen)
Phrases == Strings(Alphabet, MaxPhraseLen - 1)
              \cup Strings(NarrowAlphabet, MaxPhraseLen)

S_Arial == <<"A", "r", "i", "a", "l">>
S_Courier == <<"C", "o", "u", "r", "i", "e", "r">>
S_ONeil == <<"O", "'", "N", "e", "i", "l">>
S_weight == <<"w", "e", "i", "g", "h", "t">>
S_bold == <<"b", "o", "l", "d">>
S_red == <<"r", "e", "d">>
S_font_family == <<"f", "o", "n", "t", "_", "f", "a", "m", "i", "l", "y">>
S_font_desc == <<"f", "o", "n", "t", "_", "d", "e", "s", "c">>
S_AmpLt == <<"A", "&", "<", "b">>

\* (1.0, 1.0, 1.0), (0.0, 0.0, 0.0), (0.5, 1.0, 1.0), (0.0, 0.6, 1.0) and
\* (1.0, 0.5, 0.0)
White == <<Rat(1, 1), Rat(1, 1), Rat(1, 1)>>
Black == <<Rat(0, 1), Rat(0, 1), Rat(0, 1)>>
Cyan == <<Rat(1, 2), Rat(1, 1), Rat(1, 1)>>
Blue == <<Rat(0, 1), Rat(3, 5), Rat(1, 1)>>
Orange == <<Rat(1, 1), Rat(1, 2), Rat(0, 1)>>

\* BASE_FONT_SIZE_PT = 50 (line 74)
Int50 == PyInt(50)

\* extra_attrs: None, {} or a dict of attribute name -> value.
ExtraAttrsChoices ==
    { None,
      Some(<<>>),
      Some(<< <<S_weight, S_bold>> >>),
      Some(<< <<S_weight, S_bold>>, <<S_foreground, S_red>> >>),
      Some(<< <<S_font_family, S_ONeil>> >>),
      Some(<< <<S_font_desc, S_AmpLt>> >>) }

Options(extra_attrs, highlight_color, font_size_pt) ==
    [extra_attrs |-> extra_attrs, highlight_color |-> highlight_color,
     font_size_pt |-> font_size_pt]

\* The keyword arguments of a call of make_markup (the colour is omitted or
\* (0.0, 0.6, 1.0), the size omitted or 12.5): the overrides and the colour
\* given and the size omitted, as line 242 calls it; every choice of
\* overrides with the other two omitted or both given; and every choice of
\* colour and size with the overrides omitted.
MarkupOptions ==
    {Options(e, Some(Blue), None) : e \in ExtraAttrsChoices \ {None}}
    \cup {Options(e, None, None) : e \in ExtraAttrsChoices}
    \cup {Options(e, Some(Blue), Some(Rat(25, 2))) :
             e \in ExtraAttrsChoices \ {Some(<<>>)}}
    \cup {Options(None, c, f) :
             c \in {None, Some(Blue)}, f \in {None, Some(Rat(25, 2))}}

\* The keys of the YAML configuration that make_markup's globals come from,
\* with the keys of the output directory absent; None is an absent key.
Cfg(family, size, text, highlight) ==
    [base_font_family |-> family, base_font_size_pt |-> size,
     text_color |-> text, default_highlight_color |-> highlight,
     output_dir |-> None, output_dir_mode |-> None]

PangoConfigs ==
    { Cfg(None, None, None, None),
      Cfg(Some(S_Courier), Some(PyInt(24)), Some(Black), Some(Orange)),
      Cfg(Some(S_ONeil), None, None, None) }

Channels == {Rat(k, ColorSteps) : k \in 0..ColorSteps}

NoCall == [fn |-> "none"]
NoResult == [status |-> "none", value |-> <<>>]
\* The file system: whether the configured png_path of video_pipeline.py
\* exists, the mtimes of the files named demo_color.png under ROOT/output (in
\* the order rglob yields them), and what a run of main() of
\* pango_feature_demos.py has made: the directories and the files written,
\* each with the place it lies at.
NoFs == [png_exists |-> FALSE, candidates |-> <<>>, dirs |-> {},
         files |-> <<>>]

----------------------------------------------------------------------------
(* The pango_feature_demos.py program *)

Init ==
    /\ pc = "start"
    /\ BASE_FONT_FAMILY = S_Arial
    /\ BASE_FONT_SIZE_PT = Int50
    /\ TEXT_COLOR = White
    /\ DEFAULT_HIGHLIGHT_COLOR = Cyan
    /\ fs = NoFs
    /\ call = NoCall
    /\ result = NoResult

\* cfg.get(key, default)
CfgGet(o, default) == IF IsNone(o) THEN default ELSE Get(o)

\* A path as the configuration writes it: relative (anchor "."), or absolute
\* and then under ROOT, the directory of the two scripts (anchor "ROOT"), or
\* under a directory outside ROOT (anchor "other"); parts are its components
\* (none of them "." or "..").
Path(anchor, parts) == [anchor |-> anchor, parts |-> parts]

\* A directory on the disk, ROOT/parts or other/parts, and a file in one.
Dir(root, parts) == [root |-> root, parts |-> parts]
File(dir, name) == [dir |-> dir, name |-> name]

\* The directory a path names when the current directory is cwd.
Resolve(cwd, path) ==
    IF path.anchor = "." THEN Dir(cwd.root, cwd.parts \o path.parts)
    ELSE Dir(path.anchor, path.parts)

\* Lines 200-206: the output directory; timestamp is what
\* datetime.now().strftime gives.
OutputDir(cfg, timestamp) ==
    LET output_root == CfgGet(cfg.output_dir, Path(".", <<"output">>))
        mode == CfgGet(cfg.output_dir_mode, "timestamped")
    IN  IF mode = "timestamped"
        THEN Path(output_root.anchor, Append(output_root.parts, timestamp))
        ELSE output_root

\* Line 207, output_dir.mkdir(parents=True, exist_ok=True): the directory and
\* every missing parent are made; the two roots, the current directory and
\* the directories above it exist before and are not made.
Mkdir(files, cwd, output_dir) ==
    LET dir == Resolve(cwd, output_dir)
        Exists(n) == /\ dir.root = cwd.root
                     /\ n <= Len(cwd.parts)
                     /\ SubSeq(dir.parts, 1, n) = SubSeq(cwd.parts, 1, n)
    IN  [files EXCEPT !.dirs =
            @ \cup {Dir(dir.root, SubSeq(dir.parts, 1, n)) :
                       n \in {k \in 1..Len(dir.parts) : ~Exists(k)}}]

\* datetime.now().strftime("%Y-%m-%d_%H-%M-%S")
Timestamps == {"2025-06-01_09-30-00"}

\* Lines 165-207: main() applies the loaded configuration to the module
\* globals and makes the output directory; the runs differ in make_markup's
\* globals, and one has another current directory, ROOT/output/work.
ApplyConfig ==
    /\ pc = "start"
    /\ \E run \in {[cfg |-> c, cwd |-> Dir("ROOT", <<>>)] : c \in PangoConfigs}
                 \cup {[cfg |-> Cfg(None, None, None, None),
                         cwd |-> Dir("ROOT", <<"output", "work">>)]},
          timestamp \in Timestamps :
       LET cfg == run.cfg IN
        /\ fs' = Mkdir(fs, run.cwd, OutputDir(cfg, timestamp))
        /\ TEXT_COLOR' = CfgGet(cfg.text_color, TEXT_COLOR)
        /\ DEFAULT_HIGHLIGHT_COLOR' =
               CfgGet(cfg.default_highlight_color, DEFAULT_HIGHLIGHT_COLOR)
        /\ BASE_FONT_FAMILY' = CfgGet(cfg.base_font_family, BASE_FONT_FAMILY)
        /\ BASE_FONT_SIZE_PT' =
               CfgGet(cfg.base_font_size_pt, BASE_FONT_SIZE_PT)
    /\ pc' = "configured"
    /\ UNCHANGED <<call, result>>

\* Lines 92-132: a call of make_markup, by line 242 of main() or by a program
\* that imports the module; make_markup reads the globals and its arguments
\* and touches no file (render, line 243, is what writes one).
CallMakeMarkup ==
    /\ pc = "configured"
    /\ \E sentence \in Sentences, phrase \in Phrases, o \in MarkupOptions :
        /\ call' = [fn |-> "make_markup", sentence |-> sentence,
                    phrase |-> phrase, extra_attrs |-> o.extra_attrs,
                    highlight_color |-> o.highlight_color,
                    font_size_pt |-> o.font_size_pt]
        /\ result' = make_markup(sentence, phrase, o.extra_attrs,
                                 o.highlight_color, o.font_size_pt)
    /\ pc' = "returned"
    /\ UNCHANGED <<BASE_FONT_FAMILY, BASE_FONT_SIZE_PT, TEXT_COLOR,
                   DEFAULT_HIGHLIGHT_COLOR, fs>>

\* Lines 88-89: a call of rgb_to_hex.
CallRgbToHex ==
    /\ pc = "configured"
    /\ \E r \in Channels, g \in Channels, b \in Channels :
        /\ call' = [fn |-> "rgb_to_hex", rgb |-> <<r, g, b>>]
        /\ result' = Ok(rgb_to_hex(<<r, g, b>>))
    /\ pc' = "returned"
    /\ UNCHANGED <<BASE_FONT_FAMILY, BASE_FONT_SIZE_PT, TEXT_COLOR,
                   DEFAULT_HIGHLIGHT_COLOR, fs>>

Next == ApplyConfig \/ CallMakeMarkup \/ CallRgbToHex

Spec == Init /\ [][Next]_vars
------------------------------------------------------------------
----------------------------------------------------------------------------
(* Reading markup back: what the text rasteriser sees *)

Sensitive == {"&", "<", ">", "\"", "'"}

Entities == <<AmpEntity, LtEntity, GtEntity, QuotEntity, AposEntity>>
EntityChars == <<"&", "<", ">", "\"", "'">>

\* The entity that starts at position i of t (0 when none does).
EntityAt(t, i) ==
    IF \E e \in 1..5 : OccursAt(t, Entities[e], i - 1)
    THEN CHOOSE e \in 1..5 : OccursAt(t, Entities[e], i - 1)
    ELSE 0

\* One pass of entity decoding over t, from position i on.
RECURSIVE UnescapeFrom(_, _)
UnescapeFrom(t, i) ==
    IF i > Len(t) THEN <<>>
    ELSE IF EntityAt(t, i) # 0
    THEN <<EntityChars[EntityAt(t, i)]>>
            \o UnescapeFrom(t, i + Len(Entities[EntityAt(t, i)]))
    ELSE <<t[i]>> \o UnescapeFrom(t, i + 1)

Unescape(t) == UnescapeFrom(t, 1)

Min(S) == CHOOSE x \in S : \A y \in S : x <= y

\* The first position from i on whose character satisfies Test, Len(m) + 1
\* when there is none.
FirstFrom(m, i, Test(_)) ==
    LET hits == {j \in i..Len(m) : Test(m[j])}
    IN  IF hits = {} THEN Len(m) + 1 ELSE Min(hits)

IsLt(c) == c = "<"
IsGt(c) == c = ">"

\* The runs of a markup string with its tags (from "<" to the next ">")
\* stripped: the text at depth 1 before the first inner span (pre), at depth 2
\* (hi), at depth 1 after an inner span (post), and anywhere else (stray);
\* inner counts the spans opened at depth 2, intag tells an unclosed tag.
RECURSIVE RunsFrom(_, _, _)
RunsFrom(m, i, acc) ==
    LET lt == FirstFrom(m, i, IsLt)
        text == Slice(m, i - 1, lt - 1)
        withText ==
            IF acc.depth = 1 /\ acc.inner = 0
            THEN [acc EXCEPT !.pre = @ \o text]
            ELSE IF acc.depth = 2 THEN [acc EXCEPT !.hi = @ \o text]
            ELSE IF acc.depth = 1 THEN [acc EXCEPT !.post = @ \o text]
            ELSE [acc EXCEPT !.stray = @ \o text]
        gt == FirstFrom(m, lt, IsGt)
        closing == lt < Len(m) /\ m[lt + 1] = "/"
        nd == IF closing THEN acc.depth - 1 ELSE acc.depth + 1
        withTag ==
            [withText EXCEPT !.depth = nd,
                             !.intag = gt > Len(m),
                             !.inner = IF ~closing /\ nd = 2
                                       THEN @ + 1 ELSE @]
    IN  IF lt > Len(m) THEN withText
        ELSE IF gt > Len(m) THEN withTag
        ELSE RunsFrom(m, gt + 1, withTag)

Runs(m) ==
    RunsFrom(m, 1, [depth |-> 0, intag |-> FALSE, inner |-> 0, pre |-> <<>>,
                    hi |-> <<>>, post |-> <<>>, stray |-> <<>>])

NameChar(c) == c \notin {" ", "=", "<", ">", "/", "'", "\"", "&"}
NotNameChar(c) == ~NameChar(c)

S_span_open == <<"<", "s", "p", "a", "n">>

\* Every "&" of m[a..b] starts an entity.
EntitiesOnly(m, a, b) ==
    \A j \in a..b : m[j] = "&" => EntityAt(m, j) # 0

\* The attributes of an opening tag from position i on, each written
\* name='value' or name="value" with a value free of its quote, of "<" and of
\* any "&" that starts no entity: the position of the ">" that ends the tag,
\* 0 when the tag is malformed.
RECURSIVE TagEnd(_, _)
TagEnd(m, i) ==
    IF i > Len(m) THEN 0
    ELSE IF m[i] = ">" THEN i
    ELSE IF m[i] # " " THEN 0
    ELSE IF i < Len(m) /\ m[i + 1] \in {" ", ">"} THEN TagEnd(m, i + 1)
    ELSE
        LET eq == FirstFrom(m, i + 1, NotNameChar)
            q == m[eq + 1]
            IsQuote(c) == c = q
            close == FirstFrom(m, eq + 2, IsQuote)
        IN  IF eq = i + 1 \/ eq + 1 > Len(m) \/ m[eq] # "=" THEN 0
            ELSE IF q \notin {"'", "\""} \/ close > Len(m) THEN 0
            ELSE IF \E j \in (eq + 2)..(close - 1) : m[j] = "<" THEN 0
            ELSE IF ~EntitiesOnly(m, eq + 2, close - 1) THEN 0
            ELSE IF close = Len(m) \/ m[close + 1] \notin {" ", ">"} THEN 0
            ELSE TagEnd(m, close + 1)

\* Well-formed markup from position i on, inside depth open spans: span tags
\* balanced and nested, well-formed attributes, and text (inside a span only)
\* free of raw sensitive characters.
RECURSIVE WellFormedFrom(_, _, _)
WellFormedFrom(m, i, depth) ==
    LET lt == FirstFrom(m, i, IsLt)
        textOk ==
            /\ \A j \in i..(lt - 1) : m[j] \notin Sensitive \ {"&"}
            /\ EntitiesOnly(m, i, lt - 1)
            /\ lt > i => depth > 0
    IN  IF ~textOk THEN FALSE
        ELSE IF lt > Len(m) THEN depth = 0
        ELSE IF OccursAt(m, S_span_close, lt - 1)
        THEN depth > 0
               /\ WellFormedFrom(m, lt + Len(S_span_close), depth - 1)
        ELSE IF OccursAt(m, S_span_open, lt - 1)
        THEN LET gt == TagEnd(m, lt + Len(S_span_open))
             IN  gt # 0 /\ WellFormedFrom(m, gt + 1, depth + 1)
        ELSE FALSE

WellFormed(m) == WellFormedFrom(m, 1, 0)

PlainText(s) == \A i \in 1..Len(s) : s[i] \notin Sensitive

\* The call's attribute inputs (base font family, override names and values)
\* hold no markup-sensitive character.
PlainAttributes ==
    /\ PlainText(BASE_FONT_FAMILY)
    /\ IsNone(call.extra_attrs)
         \/ \A i \in 1..Len(Get(call.extra_attrs)) :
               /\ PlainText(Get(call.extra_attrs)[i][1])
               /\ PlainText(Get(call.extra_attrs)[i][2])

Returned(fn) == pc = "returned" /\ call.fn = fn

\* p is sentence[a:b] for some a <= b.
IsSubstring(p, s) ==
    \E a \in 0..Len(s) : \E b \in a..Len(s) : Slice(s, a, b) = p

\* The offsets at which p occurs in s.
Occurrences(s, p) ==
    {k \in 0..Len(s) : k + Len(p) <= Len(s) /\ Slice(s, k, k + Len(p)) = p}

----------------------------------------------------------------------------
(* Properties of make_markup *)

\* C1: for a phrase that is a substring of the sentence, make_markup returns
\* markup with exactly one highlighted run (one inner span, closed, with no
\* text outside the base span); the text of that run is the phrase, the text
\* before it is the sentence up to the first occurrence of the phrase, and
\* the rest of the sentence (any later occurrence included) is the
\* un-highlighted run after it.  Checked for attribute inputs free of
\* markup-sensitive characters (those are the subject of C4).
C1_FirstOccurrenceHighlighted ==
    (Returned("make_markup") /\ IsSubstring(call.phrase, call.sentence)
        /\ PlainAttributes)
    => /\ result.status = "ok"
       /\ LET runs == Runs(result.value)
              first == Min(Occurrences(call.sentence, call.phrase))
          IN  /\ runs.inner = 1
              /\ runs.depth = 0
              /\ ~runs.intag
              /\ runs.stray = <<>>
              /\ Unescape(runs.hi) = call.phrase
              /\ Unescape(runs.pre) = Slice(call.sentence, 0, first)
              /\ Unescape(runs.post) =
                     Slice(call.sentence, first + Len(call.phrase),
                           Len(call.sentence))

\* A call whose phrase occurs twice in the sentence, first at a non-zero
\* offset, returned markup whose highlighted run is the phrase.
C1_Witness ==
    /\ Returned("make_markup")
    /\ PlainAttributes
    /\ result.status = "ok"
    /\ Len(call.phrase) > 0
    /\ Cardinality(Occurrences(call.sentence, call.phrase)) >= 2
    /\ Min(Occurrences(call.sentence, call.phrase)) > 0
    /\ Unescape(Runs(result.value).hi) = call.phrase
    /\ Len(Runs(result.value).post) > 0

\* C2: when the phrase is not a substring of the sentence, make_markup raises
\* the phrase-not-found error (ValueError) and returns no markup, whatever
\* the overrides, highlight colour and font size.
C2_PhraseNotFoundRaises ==
    (Returned("make_markup") /\ ~IsSubstring(call.phrase, call.sentence))
    => /\ result.status = "ValueError"
       /\ result.value = <<>>

\* A call with overrides, a highlight colour and a font size whose phrase is
\* made of characters of the sentence, yet is no substring of it, raised.
C2_Witness ==
    /\ Returned("make_markup")
    /\ ~IsNone(call.extra_attrs) /\ Len(Get(call.extra_attrs)) > 0
    /\ ~IsNone(call.highlight_color)
    /\ ~IsNone(call.font_size_pt)
    /\ Len(call.phrase) = 2
    /\ \A i \in 1..2 : \E j \in 1..Len(call.sentence) :
           call.sentence[j] = call.phrase[i]
    /\ ~IsSubstring(call.phrase, call.sentence)
    /\ result.status = "ValueError"

\* The length of the escaped form of one character.
EscapedLen(c) ==
    IF \E e \in 1..5 : EntityChars[e] = c
    THEN Len(Entities[CHOOSE e \in 1..5 : EntityChars[e] = c])
    ELSE 1

SumEscapedLen(s) ==
    LET F[i \in 0..Len(s)] ==
            IF i = 0 THEN 0 ELSE F[i - 1] + EscapedLen(s[i])
    IN  F[Len(s)]

\* C3: escaping round trip.  Stripping the span tags of the returned markup
\* and decoding the three runs once, in order, gives back the sentence, and
\* every character is escaped exactly once (the runs are as long as the
\* once-escaped sentence).  Checked for attribute inputs free of
\* markup-sensitive characters.
C3_EscapeRoundTrip ==
    (Returned("make_markup") /\ result.status = "ok" /\ PlainAttributes)
    => LET runs == Runs(result.value)
       IN  /\ Unescape(runs.pre) \o Unescape(runs.hi) \o Unescape(runs.post)
                = call.sentence
           /\ Len(runs.pre) + Len(runs.hi) + Len(runs.post)
                = SumEscapedLen(call.sentence)
           /\ runs.stray = <<>>

\* A sentence with an ampersand and another sensitive character, one of them
\* in the highlighted phrase, was returned as markup.
C3_Witness ==
    /\ Returned("make_markup")
    /\ result.status = "ok"
    /\ PlainAttributes
    /\ \E i, j \in 1..Len(call.sentence) :
          /\ call.sentence[i] = "&"
          /\ call.sentence[j] \in Sensitive \ {"&"}
    /\ Len(call.phrase) > 0
    /\ call.phrase[1] \in Sensitive
    /\ Len(Runs(result.value).hi) > 1

\* C4: every markup make_markup returns is well-formed, for every sentence,
\* phrase, base font family and override mapping, values that hold quote,
\* ampersand or angle-bracket characters included.
C4_MarkupWellFormed ==
    (Returned("make_markup") /\ result.status = "ok")
    => WellFormed(result.value)
----------------------------------------------------------------------------
(* Properties of rgb_to_hex *)

\* The integer nearest to a non-negative float, ties to the even one
\* (Python's round): the sign of 2x - (2q + 1) decides, q being int(x).
RoundNearest(x) ==
    LET q == IntTrunc(x)
        over == ExactAdd(ExactAdd(x, x), FromInt(-(2 * q + 1)))
    IN  IF IsZero(over) THEN (IF q % 2 = 0 THEN q ELSE q + 1)
        ELSE IF over.s = 1 THEN q + 1
        ELSE q

\* C10: rgb_to_hex maps a triple with channels in [0,1] to "#" and six hex
\* digits, two per channel, each the value round(channel * 255).
C10_ChannelsRounded ==
    Returned("rgb_to_hex")
    => /\ Len(result.value) = 7
       /\ result.value[1] = "#"
       /\ \A i \in 1..3 :
             Slice(result.value, 2 * i - 1, 2 * i + 1)
                = Hex02(RoundNearest(RMul(call.rgb[i], Int255)))
----------------------------------------------------------------------------
(* video_pipeline.py *)

\* Bounds of the file system: the files named demo_color.png under output/
\* and their modification times.
MaxCandidates == 2
MaxMtime == 2

\* The strings of an argument list.  A literal is Lit(s); a formatted number
\* is NumTok(x), the number it prints; a formatted None is NoneTok; a path is
\* PathTok(root, name, k) (k tells the discovered files apart, in the order
\* rglob yields them).
Lit(s) == <<"lit", s>>
NumTok(x) == <<"num", x>>
NoneTok == <<"None">>
PathTok(root, name, k) == <<"path", root, name, k>>

\* f"{v}" of an optional number.
FmtOpt(o) == IF IsNone(o) THEN NoneTok ELSE NumTok(Get(o))

\* EASING_MAP.get(name, name): a name outside the table is kept as it is.
EasingCurveKeepUnknown(name) ==
    CASE name = "linear" -> "linear"
      [] name = "easein" -> "quadratic"
      [] name = "easeout" -> "quadratic"
      [] name = "easeinout" -> "cubic"
      [] OTHER -> name

\* EASING_MAP.get(name, "linear")
EasingCurve(name) ==
    CASE name = "linear" -> "linear"
      [] name = "easein" -> "quadratic"
      [] name = "easeout" -> "quadratic"
      [] name = "easeinout" -> "cubic"
      [] OTHER -> "linear"

\* sorted(candidates, key=mtime) without reverse=True: oldest first.
SortedByMtimeAsc(c) ==
    LET InsertStable(sorted, x) ==
            LET p == Cardinality({j \in 1..Len(sorted) :
                                     sorted[j].mtime <= x.mtime})
            IN  SubSeq(sorted, 1, p) \o <<x>>
                    \o SubSeq(sorted, p + 1, Len(sorted))
        F[i \in 0..Len(c)] ==
            IF i = 0 THEN <<>> ELSE InsertStable(F[i - 1], c[i])
    IN  F[Len(c)]

\* sorted(candidates, key=mtime, reverse=True): stable, so files of equal
\* mtime keep the order rglob yields them in.  c is a sequence of
\* [k |-> position in rglob order, mtime |-> modification time].
SortedByMtimeDesc(c) ==
    LET InsertStable(sorted, x) ==
            LET p == Cardinality({j \in 1..Len(sorted) :
                                     sorted[j].mtime >= x.mtime})
            IN  SubSeq(sorted, 1, p) \o <<x>>
                    \o SubSeq(sorted, p + 1, Len(sorted))
        F[i \in 0..Len(c)] ==
            IF i = 0 THEN <<>> ELSE InsertStable(F[i - 1], c[i])
    IN  F[Len(c)]

\* (ROOT / "output").rglob("demo_color.png") with each file's st_mtime.
Candidates(files) ==
    [k \in 1..Len(files.candidates) |->
        [k |-> k, mtime |-> files.candidates[k]]]

\* Lines 48-57: the input image, or FileNotFoundError.
ResolvePng(png_cfg, files) ==
    IF files.png_exists
    THEN Ok(PathTok("ROOT", png_cfg, 0))
    ELSE
        LET candidates == SortedByMtimeDesc(Candidates(files))
        IN  IF Len(candidates) = 0
            THEN Raise("FileNotFoundError")
            ELSE Ok(PathTok("ROOT/output", "demo_color.png",
                            candidates[1].k))

\* The literal 1.0 of line 74 and the defaults of lines 64-67: 30, 10, 1.5.
Float1 == Rat(1, 1)
DefaultFps == PyInt(30)
DefaultTotalDuration == PyInt(10)
DefaultFade == Rat(3, 2)

\* The fade-out start without the one-frame adjustment.
StartOutNoFrame(duration, fade_out, fps) == RSub(duration, fade_out)

\* Line 74: the fade-out starts one frame before duration - fade_out.
StartOut(duration, fade_out, fps) ==
    RSub(RSub(duration, fade_out), RDiv(Float1, fps))

\* The filter entries with the fades ahead of the scale.
VfPartsFadesFirst(width, height, fade_in, start_out, fade_out) ==
    << <<Lit("fade=t=in:st=0:d="), NumTok(fade_in), Lit(":alpha=1")>>,
       <<Lit("fade=t=out:st="), NumTok(start_out), Lit(":d="),
         NumTok(fade_out), Lit(":alpha=1")>>,
       <<Lit("scale="), FmtOpt(width), Lit(":"), FmtOpt(height)>> >>

\* Lines 75-79.
VfParts(width, height, fade_in, start_out, fade_out) ==
    << <<Lit("scale="), FmtOpt(width), Lit(":"), FmtOpt(height)>>,
       <<Lit("fade=t=in:st=0:d="), NumTok(fade_in), Lit(":alpha=1")>>,
       <<Lit("fade=t=out:st="), NumTok(start_out), Lit(":d="),
         NumTok(fade_out), Lit(":alpha=1")>> >>

\* Codec selection with the hardware encoder substituted whatever the
\* resolved codec name.
SelectCodecHwAny(codec_cfg, use_hw) ==
    LET codec0 == CfgGet(codec_cfg, "libx265")
        codec1 == IF codec0 = "vp9alpha" THEN "libvpx-vp9" ELSE codec0
    IN  IF use_hw THEN "hevc_videotoolbox" ELSE codec1

\* Lines 82-86.
SelectCodec(codec_cfg, use_hw) ==
    LET codec0 == CfgGet(codec_cfg, "libx265")
        codec1 == IF codec0 = "vp9alpha" THEN "libvpx-vp9" ELSE codec0
    IN  IF use_hw /\ codec1 = "libx265" THEN "hevc_videotoolbox"
        ELSE codec1

\* The argument list with the frame rate ahead of the pixel format.
CmdRateFirst(png, duration, vf, codec, fps, out) ==
    << Lit("ffmpeg"),
       Lit("-y"),
       Lit("-loop"), Lit("1"),
       Lit("-i"), png,
       Lit("-t"), NumTok(duration),
       Lit("-vf"), vf,
       Lit("-c:v"), Lit(codec),
       Lit("-r"), NumTok(fps),
       Lit("-pix_fmt"), Lit("yuva420p"),
       out >>

\* Lines 88-101.
Cmd(png, duration, vf, codec, fps, out) ==
    << Lit("ffmpeg"),
       Lit("-y"),
       Lit("-loop"), Lit("1"),
       Lit("-i"), png,
       Lit("-t"), NumTok(duration),
       Lit("-vf"), vf,
       Lit("-c:v"), Lit(codec),
       Lit("-pix_fmt"), Lit("yuva420p"),
       Lit("-r"), NumTok(fps),
       out >>

build_ffmpeg_command(cfg, files) ==
    LET png == ResolvePng(cfg.png_path, files)
        out == PathTok("ROOT", cfg.output_video, 0)
        use_hw == CfgGet(cfg.hw_accel, FALSE)
        fps == CfgGet(cfg.fps, DefaultFps)
        duration == CfgGet(cfg.total_duration, DefaultTotalDuration)
        fade_in == CfgGet(cfg.fade_in_duration, DefaultFade)
        fade_out == CfgGet(cfg.fade_out_duration, DefaultFade)
        easing_in == EasingCurve(CfgGet(cfg.easing_in, "linear"))
        easing_out == EasingCurve(CfgGet(cfg.easing_out, "linear"))
        start_out == StartOut(duration, fade_out, fps)
        vf == Join(<<Lit(",")>>,
                   VfParts(cfg.width, cfg.height, fade_in, start_out,
                           fade_out))
        codec == SelectCodec(cfg.codec, use_hw)
    IN  IF png.status # "ok" THEN png
        ELSE IF IsZero(fps) THEN Raise("ZeroDivisionError")
        ELSE [status |-> "ok",
              value |-> Cmd(png.value, duration, vf, codec, fps, out),
              easing_in |-> easing_in, easing_out |-> easing_out]

(* Inputs *)

FileSystems ==
    [png_exists : BOOLEAN,
     candidates : UNION {[1..n -> 1..MaxMtime] : n \in 0..MaxCandidates},
     dirs : {{}},
     files : {<<>>}]

VideoCfg(hw_accel, width, timing, easing_in, easing_out, codec) ==
    [png_path |-> "text.png", output_video |-> "out.mov",
     hw_accel |-> hw_accel, width |-> width, height |-> Some(PyInt(360)),
     fps |-> timing.fps, total_duration |-> timing.total_duration,
     fade_in_duration |-> timing.fade_in_duration,
     fade_out_duration |-> timing.fade_out_duration,
     easing_in |-> easing_in, easing_out |-> easing_out, codec |-> codec]

\* fps: omitted, 0, 1, 24 or 29.97; total_duration: omitted, 1, 2, 3 or 0.3;
\* fade_in_duration: omitted or 0.1; fade_out_duration: omitted, 0.1 or 0.2.
Timings ==
    [fps : {None, Some(PyInt(0)), Some(PyInt(1)), Some(PyInt(24)),
            Some(Rat(2997, 100))},
     total_duration : {None, Some(PyInt(1)), Some(PyInt(2)), Some(PyInt(3)),
                       Some(Rat(3, 10))},
     fade_in_duration : {None, Some(Rat(1, 10))},
     fade_out_duration : {None, Some(Rat(1, 10)), Some(Rat(2, 10))}]

FewTimings ==
    {t \in Timings :
        /\ t.fps \in {None, Some(PyInt(0)), Some(PyInt(24))}
        /\ t.total_duration \in {None, Some(PyInt(3))}
        /\ t.fade_in_duration = None
        /\ t.fade_out_duration = None}

\* The configurations: every timing with and without a width, every codec
\* and hw_accel with a few timings, and every pair of easing names with a
\* few timings.
VideoConfigs ==
    {VideoCfg(hw, w, t, None, None, None) :
        hw \in {None, Some(TRUE)}, w \in {None, Some(PyInt(640))},
        t \in Timings}
    \cup {VideoCfg(hw, Some(PyInt(640)), t, None, Some("easeinout"), c) :
            hw \in {None, Some(TRUE), Some(FALSE)},
            c \in {None, Some("libx265"), Some("vp9alpha"), Some("libx264")},
            t \in FewTimings}
    \cup {VideoCfg(None, None, t, ein, eout, None) :
            ein \in {None, Some("linear"), Some("easein"), Some("easeout"),
                     Some("easeinout"), Some("bounce")},
            eout \in {None, Some("easeinout"), Some("EaseOut")},
            t \in FewTimings}

VideoInit ==
    /\ pc = "start"
    /\ BASE_FONT_FAMILY = S_Arial
    /\ BASE_FONT_SIZE_PT = Int50
    /\ TEXT_COLOR = White
    /\ DEFAULT_HIGHLIGHT_COLOR = Cyan
    /\ fs \in FileSystems
    /\ call = NoCall
    /\ result = NoResult

\* main() of video_pipeline.py builds the command from the loaded
\* configuration.
CallBuildFfmpegCommand ==
    /\ pc = "start"
    /\ \E cfg \in VideoConfigs :
        /\ call' = [fn |-> "build_ffmpeg_command", cfg |-> cfg]
        /\ result' = build_ffmpeg_command(cfg, fs)
    /\ pc' = "returned"
    /\ UNCHANGED <<BASE_FONT_FAMILY, BASE_FONT_SIZE_PT, TEXT_COLOR,
                   DEFAULT_HIGHLIGHT_COLOR, fs>>

VideoNext == CallBuildFfmpegCommand

VideoSpec == VideoInit /\ [][VideoNext]_vars
----------------------------------------------------------------------------
(* Properties of build_ffmpeg_command *)

Built == Returned("build_ffmpeg_command") /\ result.status = "ok"

\* The configured value of a key, or the documented default.
Configured(o, default) == IF o = None THEN default ELSE o[1]

\* The entries of a filter graph: its tokens split at the commas.
RECURSIVE SplitAtCommas(_)
SplitAtCommas(vf) ==
    LET commas == {j \in 1..Len(vf) : vf[j] = Lit(",")}
    IN  IF commas = {} THEN <<vf>>
        ELSE <<SubSeq(vf, 1, Min(commas) - 1)>>
                \o SplitAtCommas(SubSeq(vf, Min(commas) + 1, Len(vf)))

\* The argument that follows flag in the built command.
ArgAfter(flag) ==
    result.value[1 + CHOOSE j \in 1..(Len(result.value) - 1) :
                         result.value[j] = Lit(flag)]

FilterEntries == SplitAtCommas(ArgAfter("-vf"))

\* C5: codec selection.  An omitted codec or libx265 gives hevc_videotoolbox
\* with hw_accel set and libx265 without; vp9alpha gives libvpx-vp9 whatever
\* hw_accel; every other name is passed through unchanged.
C5_CodecSelection ==
    Built =>
      LET name == Configured(call.cfg.codec, "libx265")
          hw == Configured(call.cfg.hw_accel, FALSE)
          chosen == ArgAfter("-c:v")
          InCmd(c) == \E j \in 1..Len(result.value) :
                          result.value[j] = Lit(c)
      IN  /\ name = "libx265" /\ hw =>
                chosen = Lit("hevc_videotoolbox")
                  /\ InCmd("hevc_videotoolbox") /\ ~InCmd("libx265")
          /\ name = "libx265" /\ ~hw =>
                chosen = Lit("libx265")
                  /\ InCmd("libx265") /\ ~InCmd("hevc_videotoolbox")
          /\ name = "vp9alpha" => chosen = Lit("libvpx-vp9")
          /\ name \notin {"libx265", "vp9alpha"} => chosen = Lit(name)

\* With the codec omitted and hw_accel set, the command names the hardware
\* encoder.
C5_Witness ==
    /\ Built
    /\ call.cfg.codec = None
    /\ call.cfg.hw_accel = Some(TRUE)
    /\ ArgAfter("-c:v") = Lit("hevc_videotoolbox")

\* The number a NumTok prints.
NumOf(tok) == tok[2]

\* a - b without rounding, a <= b, |a|, and a positive number.
ExactSub(a, b) == ExactAdd(a, Neg(b))
RLeq(a, b) == LET x == ExactSub(a, b) IN IsZero(x) \/ x.s = -1
Magnitude(x) == [x EXCEPT !.s = 1]
Positive(x) == ~IsZero(x) /\ x.s = 1

\* 2^-53 and 2^-52: half the gap and the gap between 1.0 and the next float.
HalfUlp == Float(1, <<1>>, -MantissaBits)
Ulp == Float(1, <<1>>, 1 - MantissaBits)

\* C6: for positive total_duration, fade_out_duration and fps, the start of
\* the fade-out entry is the value of total_duration - fade_out_duration -
\* 1/fps, computed in the numbers of the program (floats, each operation
\* rounded): it lies one frame interval before total_duration -
\* fade_out_duration, the frame interval is 1/fps to within half a unit in
\* the last place, and the fade-out ends at total_duration - 1/fps to within
\* the rounding of the two subtractions.
C6_FadeOutStart ==
    Built =>
      LET duration == Configured(call.cfg.total_duration, DefaultTotalDuration)
          fade_out == Configured(call.cfg.fade_out_duration, DefaultFade)
          fps == Configured(call.cfg.fps, DefaultFps)
          st == NumOf(FilterEntries[3][2])
          frame == RDiv(Float1, fps)
          before == RSub(duration, fade_out)
      IN  (Positive(duration) /\ Positive(fade_out) /\ Positive(fps)) =>
            /\ FilterEntries[3][2][1] = "num"
            /\ ~st.isint
            /\ st = RSub(before, frame)
            /\ RLeq(st, before) /\ st # before
            /\ RLeq(Magnitude(ExactSub(ExactMul(frame, fps), Float1)),
                    HalfUlp)
            /\ RLeq(Magnitude(ExactSub(ExactAdd(ExactAdd(st, fade_out),
                                                 frame), duration)),
                    ExactMul(Ulp, ExactAdd(ExactAdd(duration, fade_out),
                                           frame)))

\* 0.8583333333333334 = 966397420039919 * 2^-50, the float that
\* 1 - 0.1 - 1.0/24 evaluates to (the float nearest to 103/120 is the one
\* below it, 0.8583333333333333); its mantissa in limbs is
\* 28399 + 24029 * 2^15 + 15291 * 2^30 + 27 * 2^45.
Float0_8583333333333334 == Float(1, <<28399, 24029, 15291, 27>>, -50)

\* A command built for one second at 24 fps with a 0.1 s fade-out starts the
\* fade-out at 0.8583333333333334.
C6_Witness ==
    /\ Built
    /\ call.cfg.total_duration = Some(PyInt(1))
    /\ call.cfg.fade_out_duration = Some(Rat(1, 10))
    /\ call.cfg.fps = Some(PyInt(24))
    /\ FilterEntries[3][2] = NumTok(Float0_8583333333333334)
    /\ FilterEntries[3][2] # NumTok(Rat(103, 120))

\* C7: the filter graph is the comma-joined sequence of exactly three
\* entries: scale to width:height, then the fade-in (type in, start 0,
\* duration fade_in, alpha), then the fade-out (type out, start the computed
\* offset, duration fade_out, alpha).
C7_FilterGraphOrder ==
    Built =>
      LET fade_in == Configured(call.cfg.fade_in_duration, DefaultFade)
          fade_out == Configured(call.cfg.fade_out_duration, DefaultFade)
          e == FilterEntries
      IN  /\ Len(e) = 3
          /\ e[1] = <<Lit("scale="), FmtOpt(call.cfg.width), Lit(":"),
                      FmtOpt(call.cfg.height)>>
          /\ e[2] = <<Lit("fade=t=in:st=0:d="), NumTok(fade_in),
                      Lit(":alpha=1")>>
          /\ Len(e[3]) = 5
          /\ e[3][1] = Lit("fade=t=out:st=")
          /\ e[3][2][1] = "num"
          /\ SubSeq(e[3], 3, 5)
                = <<Lit(":d="), NumTok(fade_out), Lit(":alpha=1")>>

\* A command was built from a configuration that sets the width and both
\* fade durations.
C7_Witness ==
    /\ Built
    /\ call.cfg.width # None
    /\ call.cfg.fade_in_duration # None
    /\ call.cfg.fade_out_duration # None
    /\ Len(FilterEntries) = 3
    /\ FilterEntries[1][1] = Lit("scale=")

\* C8: a returned argument list has the fixed order: overwrite flag, input
\* looping flag, input path, duration limit, filter graph, codec, pixel
\* format (always yuva420p), frame rate, output path last, each value derived
\* from the configuration.
C8_ArgumentOrder ==
    Built =>
      LET cmd == result.value
          duration == Configured(call.cfg.total_duration, DefaultTotalDuration)
          fps == Configured(call.cfg.fps, DefaultFps)
      IN  /\ Len(cmd) = 17
          /\ SubSeq(cmd, 1, 5)
               = <<Lit("ffmpeg"), Lit("-y"), Lit("-loop"), Lit("1"),
                   Lit("-i")>>
          /\ cmd[6][1] = "path"
          /\ SubSeq(cmd, 7, 9) = <<Lit("-t"), NumTok(duration), Lit("-vf")>>
          /\ cmd[10][1] = Lit("scale=")
          /\ cmd[11] = Lit("-c:v")
          /\ cmd[12][1] = "lit"
          /\ cmd[12][2] \in {"libx265", "hevc_videotoolbox", "libvpx-vp9",
                            Configured(call.cfg.codec, "libx265")}
          /\ SubSeq(cmd, 13, 16)
               = <<Lit("-pix_fmt"), Lit("yuva420p"), Lit("-r"), NumTok(fps)>>
          /\ cmd[17] = PathTok("ROOT", call.cfg.output_video, 0)

\* A command was built from a configuration that sets the duration, the
\* frame rate and the codec.
C8_Witness ==
    /\ Built
    /\ call.cfg.total_duration = Some(PyInt(3))
    /\ call.cfg.fps = Some(PyInt(24))
    /\ call.cfg.codec = Some("libx264")
    /\ result.value[8] = NumTok(PyInt(3))
    /\ result.value[16] = NumTok(PyInt(24))

\* C9: source-asset resolution.  An existing configured png_path is the input
\* path, whatever lies under output/; otherwise the input is a file named
\* demo_color.png under output/ that no other such file is newer than; with
\* neither, the call raises FileNotFoundError and returns no argument list.
C9_SourceResolution ==
    Returned("build_ffmpeg_command") =>
      LET n == Len(fs.candidates)
          fpsOk == ~IsZero(Configured(call.cfg.fps, DefaultFps))
      IN  /\ (fs.png_exists \/ n > 0) /\ fpsOk => result.status = "ok"
          /\ ~fs.png_exists /\ n = 0 =>
                result.status = "FileNotFoundError" /\ result.value = <<>>
          /\ result.status = "FileNotFoundError" => ~fs.png_exists /\ n = 0
          /\ result.status = "ok" /\ fs.png_exists =>
                ArgAfter("-i") = PathTok("ROOT", call.cfg.png_path, 0)
          /\ result.status = "ok" /\ ~fs.png_exists =>
                \E k \in 1..n :
                   /\ ArgAfter("-i")
                        = PathTok("ROOT/output", "demo_color.png", k)
                   /\ \A j \in 1..n : fs.candidates[j] <= fs.candidates[k]

\* The configured image is missing and, of two files found under output/,
\* the one rglob yields second is the newer: it is the input.
C9_Witness ==
    /\ Built
    /\ ~fs.png_exists
    /\ Len(fs.candidates) = 2
    /\ fs.candidates[1] < fs.candidates[2]
    /\ ArgAfter("-i") = PathTok("ROOT/output", "demo_color.png", 2)
----------------------------------------------------------------------------
(* main() of pango_feature_demos.py: the variants and the render loop *)

\* Path(basename).stem: the final path component without its last extension
\* (for a basename that does not end with "/" or ".").
Stem(basename) ==
    LET slashes == {j \in 1..Len(basename) : basename[j] = "/"}
        name == IF slashes = {} THEN basename
                ELSE Slice(basename, Max(slashes), Len(basename))
        dots == {j \in 1..Len(name) : name[j] = "."}
        i == IF dots = {} THEN -1 ELSE Max(dots) - 1
    IN  IF 0 < i /\ i < Len(name) - 1 THEN Slice(name, 0, i) ELSE name

S_png == <<".", "p", "n", "g">>

\* f"{stem}_{suffix}.png"
OutputName(stem, suffix) == stem \o <<"_">> \o suffix \o S_png

S_demo_color_png == <<"d", "e", "m", "o", "_", "c", "o", "l", "o", "r", ".", "p", "n", "g">>

\* The time of a write: later than every mtime of the file system.
Now(files) ==
    1 + Max({0} \cup {files.candidates[k] : k \in 1..Len(files.candidates)}
                \cup {files.files[k].mtime : k \in 1..Len(files.files)})

\* Whether rglob("demo_color.png") under ROOT/output (line 52 of
\* video_pipeline.py) finds a file: it lies in ROOT/output or below it,
\* whatever the current directory of the run that wrote it was.
IsCandidate(file) ==
    /\ file.dir.root = "ROOT"
    /\ Len(file.dir.parts) > 0 /\ file.dir.parts[1] = "output"
    /\ file.name = S_demo_color_png

\* Lines 135-152, render(markup, output): the image of the markup is written
\* to the file output, made anew or written over; a new file named
\* demo_color.png under ROOT/output is one more file for rglob to find, the
\* k-th it yields.  Markup that Pango cannot parse is reported by a warning
\* of layout.set_markup, not by an exception: the file is written all the
\* same.  Failures of the disk are not modelled.
Render(files, markup, output, k) ==
    LET written == [file |-> output, mtime |-> Now(files), markup |-> markup]
        old == {j \in 1..Len(files.files) : files.files[j].file = output}
        was == {files.files[j].mtime : j \in old}
    IN  IF old # {}
        THEN [files EXCEPT
                !.files =
                    [j \in 1..Len(@) |-> IF j \in old THEN written ELSE @[j]],
                !.candidates =
                    [j \in 1..Len(@) |->
                        IF IsCandidate(output) /\ @[j] \in was
                        THEN written.mtime ELSE @[j]]]
        ELSE [files EXCEPT
                !.files = Append(@, written),
                !.candidates =
                    IF IsCandidate(output)
                    THEN SubSeq(@, 1, k - 1) \o <<written.mtime>>
                            \o SubSeq(@, k, Len(@))
                    ELSE @]

Variant(suffix, extra_attrs, color) ==
    [suffix |-> suffix, extra_attrs |-> extra_attrs, color |-> color]

\* The configured variants taken last key first.
ConfiguredVariantsReversed(variants_cfg, default_highlight_color) ==
    [i \in 1..Len(variants_cfg) |->
        LET detail == variants_cfg[Len(variants_cfg) + 1 - i][2]
        IN  Variant(variants_cfg[Len(variants_cfg) + 1 - i][1],
                    CfgGet(detail.extra_attrs, <<>>),
                    CfgGet(detail.highlight_color, default_highlight_color))]

\* Lines 223-227: one variant per key of the "variants" mapping, in the
\* mapping's order.
ConfiguredVariants(variants_cfg, default_highlight_color) ==
    [i \in 1..Len(variants_cfg) |->
        LET detail == variants_cfg[i][2]
        IN  Variant(variants_cfg[i][1],
                    CfgGet(detail.extra_attrs, <<>>),
                    CfgGet(detail.highlight_color, default_highlight_color))]

S_color == <<"c", "o", "l", "o", "r">>
S_size == <<"s", "i", "z", "e">>
S_family == <<"f", "a", "m", "i", "l", "y">>
S_style == <<"s", "t", "y", "l", "e">>
S_underline == <<"u", "n", "d", "e", "r", "l", "i", "n", "e">>
S_strike == <<"s", "t", "r", "i", "k", "e">>
S_strikethrough == <<"s", "t", "r", "i", "k", "e", "t", "h", "r", "o", "u", "g", "h">>
S_rise == <<"r", "i", "s", "e">>
S_CourierNew == <<"C", "o", "u", "r", "i", "e", "r", " ", "N", "e", "w">>
S_italic == <<"i", "t", "a", "l", "i", "c">>
S_single == <<"s", "i", "n", "g", "l", "e">>
S_true == <<"t", "r", "u", "e">>

\* The default 1.4 of size_variant_factor (line 190).
Float1_4 == Rat(7, 5)

\* Lines 189-197 and 229-238: the eight built-in variants, their values read
\* from the configuration.
DefaultVariants(cfg, default_highlight_color, base_font_size_pt) ==
    LET COLOR_VARIANT_COLOR == CfgGet(cfg.color_variant_color, Blue)
        SIZE_VARIANT_FACTOR == CfgGet(cfg.size_variant_factor, Float1_4)
        FAMILY_VARIANT_FONT ==
            CfgGet(cfg.family_variant_font_family, S_CourierNew)
        WEIGHT_VARIANT_WEIGHT == CfgGet(cfg.weight_variant_weight, S_bold)
        STYLE_VARIANT_STYLE == CfgGet(cfg.style_variant_style, S_italic)
        UNDERLINE_VARIANT_UNDERLINE ==
            CfgGet(cfg.underline_variant_underline, S_single)
        STRIKE_VARIANT_STRIKETHROUGH ==
            CfgGet(cfg.strike_variant_strikethrough, S_true)
        RISE_VARIANT_RISE == CfgGet(cfg.rise_variant_rise, 10000)
        size == Dec(IntTrunc(RMul(RMul(base_font_size_pt,
                                       SIZE_VARIANT_FACTOR), Int1024)))
    IN  << Variant(S_color, <<>>, COLOR_VARIANT_COLOR),
           Variant(S_size, << <<S_size, size>> >>, default_highlight_color),
           Variant(S_family, << <<S_font_family, FAMILY_VARIANT_FONT>> >>,
                   default_highlight_color),
           Variant(S_weight, << <<S_weight, WEIGHT_VARIANT_WEIGHT>> >>,
                   default_highlight_color),
           Variant(S_style, << <<S_style, STYLE_VARIANT_STYLE>> >>,
                   default_highlight_color),
           Variant(S_underline,
                   << <<S_underline, UNDERLINE_VARIANT_UNDERLINE>> >>,
                   default_highlight_color),
           Variant(S_strike,
                   << <<S_strikethrough, STRIKE_VARIANT_STRIKETHROUGH>> >>,
                   default_highlight_color),
           Variant(S_rise, << <<S_rise, Dec(RISE_VARIANT_RISE)>> >>,
                   default_highlight_color) >>

\* Lines 221-238: the configured variants when the "variants" mapping is
\* present and not empty, the built-in ones otherwise.
Variants(cfg, default_highlight_color, base_font_size_pt) ==
    IF ~IsNone(cfg.variants) /\ Len(Get(cfg.variants)) > 0
    THEN ConfiguredVariants(Get(cfg.variants), default_highlight_color)
    ELSE DefaultVariants(cfg, default_highlight_color, base_font_size_pt)

\* The sentence and the phrase main() ends up with, from the command line or
\* from the "text" mapping of the configuration; <<>> is an absent or empty
\* one.
MainSentences == Strings(NarrowAlphabet, MaxPhraseLen + 1)
MainPhrases == Strings(NarrowAlphabet, MaxPhraseLen)

S_demo == <<"d", "e", "m", "o">>
S_out_demo_v1_png == <<"o", "u", "t", "/", "d", "e", "m", "o", ".", "v", "1", ".", "p", "n", "g">>

\* --basename
Basenames == {S_demo, S_out_demo_v1_png}

\* The configuration keys that the built-in variants read.
VariantValueChoices ==
    { [color_variant_color |-> None, size_variant_factor |-> None,
       family_variant_font_family |-> None, weight_variant_weight |-> None,
       style_variant_style |-> None, underline_variant_underline |-> None,
       strike_variant_strikethrough |-> None, rise_variant_rise |-> None],
      [color_variant_color |-> Some(Orange),
       size_variant_factor |-> Some(Rat(3, 2)),
       family_variant_font_family |-> Some(S_Arial),
       weight_variant_weight |-> Some(<<"h", "e", "a", "v", "y">>),
       style_variant_style |-> Some(<<"o", "b", "l", "i", "q", "u", "e">>),
       underline_variant_underline |-> Some(<<"d", "o", "u", "b", "l", "e">>),
       strike_variant_strikethrough |-> Some(<<"f", "a", "l", "s", "e">>),
       rise_variant_rise |-> Some(5)] }

Detail(extra_attrs, highlight_color) ==
    [extra_attrs |-> extra_attrs, highlight_color |-> highlight_color]

\* The "variants" mapping of the configuration: absent, empty, or suffix ->
\* detail in the order of the file.
VariantsCfgChoices ==
    { None,
      Some(<<>>),
      Some(<< <<<<"o", "n", "l", "y">>, Detail(None, None)>> >>),
      Some(<< <<<<"b", "o", "l", "d">>, Detail(Some(<< <<S_weight, S_bold>> >>), None)>>,
              <<<<"w", "a", "r", "m">>, Detail(None, Some(Orange))>>,
              <<<<"b", "o", "t", "h">>, Detail(Some(<< <<S_weight, S_bold>>,
                                       <<S_foreground, S_red>> >>),
                               Some(Blue))>> >>),
      Some(<< <<<<"q", "u", "o", "t", "e">>, Detail(Some(<< <<S_font_family, S_ONeil>> >>),
                                None)>>,
              <<<<"p", "l", "a", "i", "n">>, Detail(Some(<<>>), None)>> >>) }

\* base_font_size_pt: 45
BaseConfigs == PangoConfigs \cup {Cfg(None, Some(PyInt(45)), None, None)}

MainCfg(b, v, vs, output_dir, output_dir_mode) ==
    [base_font_family |-> b.base_font_family,
     base_font_size_pt |-> b.base_font_size_pt,
     text_color |-> b.text_color,
     default_highlight_color |-> b.default_highlight_color,
     color_variant_color |-> v.color_variant_color,
     size_variant_factor |-> v.size_variant_factor,
     family_variant_font_family |-> v.family_variant_font_family,
     weight_variant_weight |-> v.weight_variant_weight,
     style_variant_style |-> v.style_variant_style,
     underline_variant_underline |-> v.underline_variant_underline,
     strike_variant_strikethrough |-> v.strike_variant_strikethrough,
     rise_variant_rise |-> v.rise_variant_rise,
     variants |-> vs,
     output_dir |-> output_dir,
     output_dir_mode |-> output_dir_mode]

\* The configurations with the output keys omitted.
MainConfigs ==
    {MainCfg(b, v, vs, None, None) :
        b \in BaseConfigs, v \in VariantValueChoices,
        vs \in VariantsCfgChoices}

\* The configurations that differ in the output keys only: output_dir and
\* output_dir_mode both omitted (output/<timestamp>), or output itself,
\* renders/<timestamp>, output/final/<timestamp>, and the absolute paths
\* ROOT/output/abs and (outside ROOT) other/renders.
OutputConfigs ==
    {MainCfg(Cfg(None, None, None, None),
             CHOOSE v \in VariantValueChoices : v.size_variant_factor = None,
             None, o[1], o[2]) :
        o \in { <<None, None>>,
                <<None, Some("flat")>>,
                <<Some(Path(".", <<"renders">>)), None>>,
                <<Some(Path(".", <<"output", "final">>)),
                  Some("timestamped")>>,
                <<Some(Path("ROOT", <<"output", "abs">>)), Some("flat")>>,
                <<Some(Path("other", <<"renders">>)), Some("flat")>> }}

\* A run of main(): its configuration and its current directory, ROOT for
\* every configuration, and ROOT/output/work and a directory outside ROOT
\* for the default output directory and for the absolute one under ROOT.
MainRuns ==
    {[cfg |-> c, cwd |-> Dir("ROOT", <<>>)] :
        c \in MainConfigs \cup OutputConfigs}
    \cup {[cfg |-> c, cwd |-> d] :
             c \in {o \in OutputConfigs :
                       IF IsNone(o.output_dir) THEN IsNone(o.output_dir_mode)
                       ELSE Get(o.output_dir).anchor = "ROOT"},
             d \in {Dir("ROOT", <<"output", "work">>), Dir("other", <<>>)}}

\* Lines 157-238: main() applies the configuration to the globals, makes the
\* output directory, settles the sentence, the phrase and the stem, and
\* builds the list of variants; ap.error() exits when the sentence or the
\* phrase is missing (the output directory is made by then).
MainStart ==
    /\ pc = "start"
    /\ \E run \in MainRuns, timestamp \in Timestamps, sent \in MainSentences,
          phrase \in MainPhrases, basename \in Basenames :
        LET cfg == run.cfg
            text_color == CfgGet(cfg.text_color, TEXT_COLOR)
            default_highlight_color ==
                CfgGet(cfg.default_highlight_color, DEFAULT_HIGHLIGHT_COLOR)
            base_font_family == CfgGet(cfg.base_font_family, BASE_FONT_FAMILY)
            base_font_size_pt ==
                CfgGet(cfg.base_font_size_pt, BASE_FONT_SIZE_PT)
            output_dir == OutputDir(cfg, timestamp)
            given == Len(sent) > 0 /\ Len(phrase) > 0
        IN  /\ TEXT_COLOR' = text_color
            /\ DEFAULT_HIGHLIGHT_COLOR' = default_highlight_color
            /\ BASE_FONT_FAMILY' = base_font_family
            /\ BASE_FONT_SIZE_PT' = base_font_size_pt
            /\ fs' = Mkdir(fs, run.cwd, output_dir)
            /\ call' = [fn |-> "main", cfg |-> cfg, cwd |-> run.cwd,
                        sent |-> sent, phrase |-> phrase,
                        basename |-> basename,
                        output_dir |-> Resolve(run.cwd, output_dir),
                        stem |-> IF given THEN Stem(basename) ELSE <<>>,
                        variants |->
                            IF given
                            THEN Variants(cfg, default_highlight_color,
                                          base_font_size_pt)
                            ELSE <<>>,
                        invocations |-> <<>>]
            /\ result' = IF given THEN [status |-> "running", value |-> <<>>]
                         ELSE Raise("SystemExit")
            /\ pc' = IF given THEN "rendering" ELSE "returned"

\* Lines 241-243, one turn of the loop: the next variant's markup is made and
\* rendered to its file in the output directory; a ValueError of make_markup
\* ends main().
RenderVariant ==
    /\ pc = "rendering"
    /\ Len(call.invocations) < Len(call.variants)
    /\ LET v == call.variants[Len(call.invocations) + 1]
           markup == make_markup(call.sent, call.phrase, Some(v.extra_attrs),
                                 Some(v.color), None)
           output == File(call.output_dir, OutputName(call.stem, v.suffix))
       IN  /\ call' = [call EXCEPT !.invocations =
                          Append(@, [sentence |-> call.sent,
                                     phrase |-> call.phrase,
                                     extra_attrs |-> Some(v.extra_attrs),
                                     highlight_color |-> Some(v.color),
                                     font_size_pt |-> None])]
           /\ IF markup.status = "ok"
              THEN /\ \E k \in 1..(Len(fs.candidates) + 1) :
                         fs' = Render(fs, markup.value, output, k)
                   /\ result' = [result EXCEPT !.value =
                                   Append(@, [output |-> output,
                                              markup |-> markup.value])]
                   /\ pc' = "rendering"
              ELSE /\ fs' = fs
                   /\ result' = [result EXCEPT !.status = markup.status]
                   /\ pc' = "returned"
    /\ UNCHANGED <<BASE_FONT_FAMILY, BASE_FONT_SIZE_PT, TEXT_COLOR,
                   DEFAULT_HIGHLIGHT_COLOR>>

\* The loop of lines 241-243 is over: main() returns.
MainReturn ==
    /\ pc = "rendering"
    /\ Len(call.invocations) = Len(call.variants)
    /\ result' = [result EXCEPT !.status = "ok"]
    /\ pc' = "returned"
    /\ UNCHANGED <<BASE_FONT_FAMILY, BASE_FONT_SIZE_PT, TEXT_COLOR,
                   DEFAULT_HIGHLIGHT_COLOR, fs, call>>

MainNext == MainStart \/ RenderVariant \/ MainReturn

MainSpec == Init /\ [][MainNext]_vars

----------------------------------------------------------------------------
(* Properties of main()'s variant generation *)

\* The variant set of a run of main(): whether it is the configured one, its
\* size, and its i-th suffix, overrides and highlight colour.
VariantSetConfigured ==
    ~IsNone(call.cfg.variants) /\ Len(Get(call.cfg.variants)) > 0

VariantSetSize ==
    IF VariantSetConfigured THEN Len(Get(call.cfg.variants))
    ELSE Len(call.variants)

VariantSuffix(i) ==
    IF VariantSetConfigured THEN Get(call.cfg.variants)[i][1]
    ELSE call.variants[i].suffix

VariantOverrides(i) ==
    IF VariantSetConfigured
    THEN LET o == Get(call.cfg.variants)[i][2].extra_attrs
         IN  IF IsNone(o) THEN <<>> ELSE Get(o)
    ELSE call.variants[i].extra_attrs

VariantColor(i) ==
    IF VariantSetConfigured
    THEN LET c == Get(call.cfg.variants)[i][2].highlight_color
         IN  IF IsNone(c) THEN DEFAULT_HIGHLIGHT_COLOR ELSE Get(c)
    ELSE call.variants[i].color

\* A document up to the name of its second tag, and from the ">" that ends
\* that tag on: everything but the attributes of the highlighted run's
\* opening tag.
HeadLen(m) == FirstFrom(m, 2, IsLt) + Len(S_span_open)

TailLen(sent, phrase) ==
    LET first == Min(Occurrences(sent, phrase))
    IN  1 + SumEscapedLen(Slice(sent, first, Len(sent)))
          + 2 * Len(S_span_close)

DocHead(m) == Slice(m, 0, HeadLen(m))
DocTail(m, sent, phrase) ==
    Slice(m, Len(m) - TailLen(sent, phrase), Len(m))

\* C11: a run of main() over a variant set of N entries, for a sentence that
\* holds the phrase, invokes make_markup exactly N times, the i-th time with
\* the i-th variant's overrides and highlight colour and the same sentence
\* and phrase; it writes N files, the i-th the rendering of the markup of the
\* i-th invocation under the name {stem}_{suffix_i} (with the extension
\* .png, in the output directory); and
\* every document is the same head (base tag, escaped prefix, "<span "),
\* then the attributes of the highlighted run's opening tag, then the same
\* tail (">", escaped phrase, "</span>", escaped suffix, "</span>").
C11_VariantGeneration ==
    (Returned("main") /\ IsSubstring(call.phrase, call.sent)
        /\ Len(call.sent) > 0 /\ Len(call.phrase) > 0)
    => LET N == VariantSetSize
           doc(i) == result.value[i].markup
           first == Min(Occurrences(call.sent, call.phrase))
           frame == Runs(DocHead(doc(1))
                           \o DocTail(doc(1), call.sent, call.phrase))
       IN  /\ result.status = "ok"
           /\ Len(call.invocations) = N
           /\ Len(result.value) = N
           /\ Len(fs.files) = N
           /\ \A i \in 1..N :
                 /\ call.invocations[i]
                      = [sentence |-> call.sent, phrase |-> call.phrase,
                         extra_attrs |-> Some(VariantOverrides(i)),
                         highlight_color |-> Some(VariantColor(i)),
                         font_size_pt |-> None]
                 /\ result.value[i].output.name
                      = call.stem \o <<"_">> \o VariantSuffix(i) \o S_png
                 /\ fs.files[i].file = result.value[i].output
                 /\ fs.files[i].markup = doc(i)
                 /\ Ok(doc(i))
                      = make_markup(call.sent, call.phrase,
                                    Some(VariantOverrides(i)),
                                    Some(VariantColor(i)), None)
                 /\ HeadLen(doc(i)) + TailLen(call.sent, call.phrase)
                      <= Len(doc(i))
                 /\ DocHead(doc(i)) = DocHead(doc(1))
                 /\ DocTail(doc(i), call.sent, call.phrase)
                      = DocTail(doc(1), call.sent, call.phrase)
           /\ N > 0 =>
                 /\ frame.inner = 1 /\ frame.depth = 0 /\ frame.stray = <<>>
                 /\ Unescape(frame.pre) = Slice(call.sent, 0, first)
                 /\ Unescape(frame.hi) = call.phrase
                 /\ Unescape(frame.post)
                      = Slice(call.sent, first + Len(call.phrase),
                              Len(call.sent))

\* A run with three configured variants (overrides only, colour only, both)
\* and a basename with a directory and two extensions wrote three distinct
\* documents under three names, the second one demo.v1_warm.png.
C11_Witness ==
    /\ Returned("main")
    /\ result.status = "ok"
    /\ VariantSetConfigured
    /\ Len(call.invocations) = 3
    /\ Len(result.value) = 3
    /\ call.basename = S_out_demo_v1_png
    /\ result.value[2].output.name = <<"d", "e", "m", "o", ".", "v", "1", "_", "w", "a", "r", "m", ".", "p", "n", "g">>
    /\ fs.files[2].file.name = result.value[2].output.name
    /\ \A i, j \in 1..3 :
          i # j => /\ result.value[i].markup # result.value[j].markup
                   /\ result.value[i].output # result.value[j].output
    /\ Min(Occurrences(call.sent, call.phrase)) > 0
    /\ "&" \in {call.phrase[k] : k \in 1..Len(call.phrase)}

----------------------------------------------------------------------------
(* Properties of the highlighted run's attributes *)

\* The sequences that list every element of S once.
Orderings(S) ==
    {f \in [1..Cardinality(S) -> S] :
        \A i, j \in 1..Cardinality(S) : f[i] = f[j] => i = j}

\* The text between "<span " and ">" in the highlighted run's opening tag of
\* the markup returned for a sentence and a phrase.
HighlightAttrsText(m, sentence, phrase) ==
    Slice(m, HeadLen(m), Len(m) - TailLen(sentence, phrase))

\* name='value' of a set of attribute names in a given order.
Written(order, Value(_)) ==
    Join(<<" ">>, [i \in 1..Len(order) |->
                      order[i] \o <<"=", "'">> \o Value(order[i]) \o <<"'">>])

\* C12: the attributes written in the highlighted run's opening tag are the
\* union of the default foreground (rgb_to_hex of the highlight colour, the
\* configured default when none is passed) and the overrides: each name of
\* the union is written once, an override's name with the override's value
\* (foreground included, which then replaces the default colour), and with
\* no overrides the only attribute is the default foreground.
C12_AttributesUnion ==
    (Returned("make_markup") /\ result.status = "ok")
    => LET overrides == IF IsNone(call.extra_attrs) THEN <<>>
                        ELSE Get(call.extra_attrs)
           color == IF IsNone(call.highlight_color)
                    THEN DEFAULT_HIGHLIGHT_COLOR
                    ELSE Get(call.highlight_color)
           hex == rgb_to_hex(color)
           names == {S_foreground}
                       \cup {overrides[i][1] : i \in 1..Len(overrides)}
           Value(k) ==
               IF \E i \in 1..Len(overrides) : overrides[i][1] = k
               THEN overrides[CHOOSE i \in 1..Len(overrides) :
                                  overrides[i][1] = k][2]
               ELSE hex
           text == HighlightAttrsText(result.value, call.sentence,
                                      call.phrase)
       IN  /\ \E order \in Orderings(names) : text = Written(order, Value)
           /\ overrides = <<>>
                => text = S_foreground \o <<"=", "'">> \o hex \o <<"'">>

\* A call with a highlight colour and overrides that name both weight and
\* foreground returned markup whose highlighted run carries the override's
\* foreground, once, and the weight.
C12_Witness ==
    /\ Returned("make_markup")
    /\ result.status = "ok"
    /\ ~IsNone(call.highlight_color)
    /\ ~IsNone(call.extra_attrs)
    /\ HasKey(Get(call.extra_attrs), S_foreground)
    /\ HasKey(Get(call.extra_attrs), S_weight)
    /\ HighlightAttrsText(result.value, call.sentence, call.phrase)
         = <<"f", "o", "r", "e", "g", "r", "o", "u", "n", "d", "=", "'", "r", "e", "d", "'", " ", "w", "e", "i", "g", "h", "t", "=", "'", "b", "o", "l", "d", "'">>

----------------------------------------------------------------------------
(* Properties of the easing names *)

\* The curve identifier of a configured easing name (None: the key is
\* omitted).
CurveOf(o) ==
    IF o = None THEN "linear"
    ELSE CASE o[1] = "linear" -> "linear"
           [] o[1] = "easein" -> "quadratic"
           [] o[1] = "easeout" -> "quadratic"
           [] o[1] = "easeinout" -> "cubic"
           [] OTHER -> "linear"

KnownEasing == {"linear", "easein", "easeout", "easeinout"}

\* C13: build_ffmpeg_command normalises easing_in and easing_out alike:
\* linear, easein, easeout and easeinout give linear, quadratic, quadratic
\* and cubic, any other name and an omitted key give linear; and the easing
\* names never make the call fail: with an input image and a non-zero frame
\* rate the call returns whatever the names are.
C13_EasingNormalisation ==
    Returned("build_ffmpeg_command") =>
      LET hasPng == fs.png_exists \/ Len(fs.candidates) > 0
          fpsOk == ~IsZero(Configured(call.cfg.fps, DefaultFps))
      IN  /\ hasPng /\ fpsOk => result.status = "ok"
          /\ result.status = "ok" =>
                /\ result.easing_in = CurveOf(call.cfg.easing_in)
                /\ result.easing_out = CurveOf(call.cfg.easing_out)
                /\ result.easing_in \in {"linear", "quadratic", "cubic"}
                /\ result.easing_out \in {"linear", "quadratic", "cubic"}

\* A call with an unknown easing_in name and a name of the table in another
\* letter case as easing_out returned, both curves linear.
C13_Witness ==
    /\ Built
    /\ call.cfg.easing_in # None
    /\ call.cfg.easing_in[1] \notin KnownEasing
    /\ call.cfg.easing_out = Some("EaseOut")
    /\ result.easing_in = "linear"
    /\ result.easing_out = "linear"

----------------------------------------------------------------------------
(* Properties of the two fades *)

\* C14: for every configuration with positive fps and fade_in_duration +
\* fade_out_duration <= total_duration (defaults counted), the fades of the
\* built filter graph do not overlap: the start of the fade-out entry is at
\* or after the end of the fade-in entry, 0 + its duration.
C14_FadesDoNotOverlap ==
    Built =>
      LET duration == Configured(call.cfg.total_duration, DefaultTotalDuration)
          fade_in == Configured(call.cfg.fade_in_duration, DefaultFade)
          fade_out == Configured(call.cfg.fade_out_duration, DefaultFade)
          fps == Configured(call.cfg.fps, DefaultFps)
          endIn == NumOf(FilterEntries[2][2])
          startOut == NumOf(FilterEntries[3][2])
      IN  (Positive(fps) /\ RLeq(ExactAdd(fade_in, fade_out), duration))
          => RLeq(endIn, startOut)

====
